---- MODULE Spec2Model ----
(***************************************************************************)
(* Room / turn state machine of the music-guesser backend                  *)
(* (src/src/backend/index.js).  One action per socket.io handler or timer   *)
(* callback; every handler runs to completion (single Node event loop).    *)
(*                                                                         *)
(* Strings whose content matters (nicknames, titles, artists, chat         *)
(* messages, the turn duration argument) are sequences of one-character    *)
(* strings.  JavaScript null is NullStr for such strings, "null" for the   *)
(* opaque musicUrl and 0 for the timer handle.  Object key order (players, *)
(* rooms) is insertion order: players is a sequence of records and roomKeys *)
(* the sequence of room codes.                                             *)
(***************************************************************************)
EXTENDS Integers, Sequences, FiniteSets, TLC

VARIABLES rooms, roomKeys, members, timers, lookups, requests, closed, out, ack, credited, last, announced,
          currentSession, isAuthenticated, isLoading, storedSession, http, refreshTimers

\* the variables of the server and those of the client's SpotifyAuthService
server == <<rooms, roomKeys, members, timers, lookups, requests, closed, out, ack, credited, last, announced>>
client == <<currentSession, isAuthenticated, isLoading, storedSession, http, refreshTimers>>

vars == <<server, client>>

(* ----------------------------- bounds ---------------------------------- *)

MaxLookups == 1
MaxRequests == 1
MaxCredit == 2

(* ------------------------- inputs of the model ------------------------- *)

Sockets == {"s1", "s2", "s3"}
RoomCodes == {"R"}

\* every room code a request may carry; "Q" and "P" are used by the
\* specification of several rooms only
AllCodes == {"R", "Q", "P"}
TimerIds == 1..3

\* the two connections of the main specification
Pair == {"s1", "s2"}

\* a nickname of exactly 20 characters and one of 21
Nick20 == [i \in 1..20 |-> "n"]
Nick21 == [i \in 1..21 |-> "n"]

\* nicknames a connection may ask for: its own, a shared one ("x" and "X"
\* differ in case only), or one that is too long
NickChoices(s) == IF s = "s1" THEN {<<"A">>, <<"x">>} ELSE {Nick20, <<"X">>, Nick21}

\* the one nickname each connection uses in the three-player specification
OwnNick(s) == IF s = "s1" THEN <<"A">> ELSE IF s = "s2" THEN <<"B">> ELSE <<"C">>

Urls == {"u1", "bad"}

\* the links of the upload specification: two videos with different tracks
UploadUrls == {"u1", "u2"}

\* one chat message; lower-cased and trimmed it contains both the title and the artist of "u1"
Messages == {<<" ", "J", " ", "H", "I">>}

\* turn durations offered to start-game: the lower limit 10 and 9 below it
DurationInputs == {<<"1", "0">>, <<"9">>}

\* the turn durations of the race specification: the above, the upper limit
\* 120, 121 above it, and a text that is no number
RaceDurations == DurationInputs \cup {<<"1", "2", "0">>, <<"1", "2", "1">>, <<"x">>}

LookupResults == {"ok", "empty", "error"}

(* ------------------------------ strings -------------------------------- *)

NullStr == <<"<null>">>
NullUrl == "null"
NoTimer == 0
NaN == -1

UpperChars == <<"A", "B", "C", "D", "E", "F", "G", "H", "I", "J", "K", "L", "M",
                "N", "O", "P", "Q", "R", "S", "T", "U", "V", "W", "X", "Y", "Z">>
LowerChars == <<"a", "b", "c", "d", "e", "f", "g", "h", "i", "j", "k", "l", "m",
                "n", "o", "p", "q", "r", "s", "t", "u", "v", "w", "x", "y", "z">>
Digits == <<"0", "1", "2", "3", "4", "5", "6", "7", "8", "9">>

LowerChar(c) ==
  IF \E i \in 1..26 : UpperChars[i] = c
  THEN LowerChars[CHOOSE i \in 1..26 : UpperChars[i] = c]
  ELSE c

toLowerCase(s) == [i \in 1..Len(s) |-> LowerChar(s[i])]

RECURSIVE trimStart(_)
trimStart(s) == IF Len(s) > 0 /\ Head(s) = " " THEN trimStart(Tail(s)) ELSE s

RECURSIVE trimEnd(_)
trimEnd(s) == IF Len(s) > 0 /\ s[Len(s)] = " " THEN trimEnd(SubSeq(s, 1, Len(s) - 1)) ELSE s

trim(s) == trimEnd(trimStart(s))

includes(s, t) == \E i \in 0..(Len(s) - Len(t)) : SubSeq(s, i + 1, i + Len(t)) = t

IsDigit(c) == \E i \in 1..10 : Digits[i] = c
DigitVal(c) == (CHOOSE i \in 1..10 : Digits[i] = c) - 1

RECURSIVE parseDigits(_, _)
parseDigits(s, acc) ==
  IF Len(s) > 0 /\ IsDigit(Head(s)) THEN parseDigits(Tail(s), 10 * acc + DigitVal(Head(s))) ELSE acc

parseInt(s) ==
  LET t == trimStart(s)
  IN  IF Len(t) > 0 /\ IsDigit(Head(t)) THEN parseDigits(t, 0) ELSE NaN

(* ------------------- external lookups (tables) ------------------------- *)

\* getYoutubeIdAndStartTime: video id and start time of a submitted URL.
VideoIdOf(url) == IF url = "bad" THEN NullUrl ELSE url
StartTimeOf(url) == IF url = "u2" THEN 30 ELSE 0

\* Title and artist the metadata services resolve for a video.
TitleOf(url) == IF url = "u1" THEN <<"H", "i">> ELSE <<"y", "o">>
ArtistOf(url) == IF url = "u1" THEN <<"J">> ELSE <<>>

(* ------------------------- sequences as objects ------------------------ *)

Range(s) == {s[i] : i \in 1..Len(s)}

RECURSIVE Filter(_, _)
Filter(s, x) ==
  IF s = <<>> THEN <<>>
  ELSE IF Head(s) = x THEN Filter(Tail(s), x) ELSE <<Head(s)>> \o Filter(Tail(s), x)

Ids(room) == [i \in 1..Len(room.players) |-> room.players[i].id]

HasPlayer(room, s) == \E i \in 1..Len(room.players) : room.players[i].id = s

PlayerIdx(room, s) == CHOOSE i \in 1..Len(room.players) : room.players[i].id = s

PlayerOf(room, s) == room.players[PlayerIdx(room, s)]

\* players[s] = p : an existing key keeps its position, a new key goes last.
SetPlayer(room, s, p) ==
  IF HasPlayer(room, s)
  THEN [room EXCEPT !.players[PlayerIdx(room, s)] = p]
  ELSE [room EXCEPT !.players = Append(@, p)]

RECURSIVE WithoutId(_, _)
WithoutId(ps, s) ==
  IF ps = <<>> THEN <<>>
  ELSE IF Head(ps).id = s THEN WithoutId(Tail(ps), s) ELSE <<Head(ps)>> \o WithoutId(Tail(ps), s)

DeletePlayer(room, s) == [room EXCEPT !.players = WithoutId(@, s)]

NoGuess == [title |-> FALSE, artist |-> FALSE]

ClearGuesses(room) ==
  [room EXCEPT !.players = [i \in 1..Len(@) |-> [@[i] EXCEPT !.hasGuessedCorrectlyThisTurn = NoGuess]]]

NewRoom(s) ==
  [players |-> <<>>, hostId |-> s, gameStarted |-> FALSE, gameEnded |-> FALSE,
   turnQueue |-> <<>>, currentTurnIndex |-> 0, totalTurnsPlayed |-> 0, maxTurns |-> 0,
   turnDuration |-> 30, turnTimeoutId |-> NoTimer]

\* a player record created as if its track were already uploaded
NewPlayerUploaded(s, nickname) ==
  [id |-> s, nickname |-> nickname, musicUrl |-> NullUrl, musicStartTime |-> 0,
   songTitle |-> NullStr, songArtist |-> NullStr, score |-> 0, hasUploaded |-> TRUE,
   lastGuessTime |-> 0, hasGuessedCorrectlyThisTurn |-> NoGuess]

NewPlayer(s, nickname) ==
  [id |-> s, nickname |-> nickname, musicUrl |-> NullUrl, musicStartTime |-> 0,
   songTitle |-> NullStr, songArtist |-> NullStr, score |-> 0, hasUploaded |-> FALSE,
   lastGuessTime |-> 0, hasGuessedCorrectlyThisTurn |-> NoGuess]

(* ------------------------------ broadcasts ----------------------------- *)

\* The world a handler works on: the registry, the runtime's pending timers,
\* socket.io room membership and the broadcasts emitted so far by the handler.
World == [rooms |-> rooms, roomKeys |-> roomKeys, members |-> members, timers |-> timers, out |-> <<>>]

Emit(w, r, type, data) ==
  [w EXCEPT !.out = Append(@, [type |-> type, room |-> r, to |-> w.members[r], data |-> data])]

getRoomUpdate(w, r) ==
  LET roomObj == w.rooms[r]
  IN  [players |-> [i \in 1..Len(roomObj.players) |->
                      [nickname |-> roomObj.players[i].nickname,
                       hasUploaded |-> roomObj.players[i].hasUploaded,
                       score |-> roomObj.players[i].score]],
       hostId |-> roomObj.hostId,
       gameStarted |-> roomObj.gameStarted,
       gameEnded |-> roomObj.gameEnded]

EmitRoomUpdate(w, r) == Emit(w, r, "room-update", getRoomUpdate(w, r))

\* Array.prototype.sort((a, b) => b.score - a.score): stable, descending.
RECURSIVE InsertByScore(_, _)
InsertByScore(sorted, e) ==
  IF sorted = <<>> THEN <<e>>
  ELSE IF Head(sorted).score >= e.score
       THEN <<Head(sorted)>> \o InsertByScore(Tail(sorted), e)
       ELSE <<e>> \o sorted

RECURSIVE SortByScore(_)
SortByScore(s) ==
  IF s = <<>> THEN <<>>
  ELSE InsertByScore(SortByScore(SubSeq(s, 1, Len(s) - 1)), s[Len(s)])

\* the final scores sorted with the latest joiner first among equals
ScoresLatestFirst(room) ==
  SortByScore([i \in 1..Len(room.players) |->
                 [nickname |-> room.players[Len(room.players) + 1 - i].nickname,
                  score |-> room.players[Len(room.players) + 1 - i].score]])

Scores(room) ==
  SortByScore([i \in 1..Len(room.players) |->
                 [nickname |-> room.players[i].nickname, score |-> room.players[i].score]])

\* every pending timer cancelled, whichever room it belongs to
clearEveryTimeout(w, id) == [w EXCEPT !.timers = {}]

clearTimeout(w, id) == [w EXCEPT !.timers = {t \in @ : t.id # id}]

\* the handle dropped without cancelling the timer
ForgetTurnTimer(w, r) == [w EXCEPT !.rooms[r].turnTimeoutId = NoTimer]

\* if (roomObj.turnTimeoutId) { clearTimeout(...); roomObj.turnTimeoutId = null; }
ClearTurnTimer(w, r) ==
  IF w.rooms[r].turnTimeoutId # NoTimer
  THEN [clearTimeout(w, w.rooms[r].turnTimeoutId) EXCEPT !.rooms[r].turnTimeoutId = NoTimer]
  ELSE w

NoAck == [to |-> "none", success |-> FALSE, message |-> "none"]
Fail(s, msg) == [to |-> s, success |-> FALSE, message |-> msg]
Ok(s, msg) == [to |-> s, success |-> TRUE, message |-> msg]

NoCredit == [title |-> 0, artist |-> 0]

NoRooms == [k \in {} |-> 0]

\* no game started and no turn announced yet; on says whether announcements are recorded
NotAnnounced(on) ==
  [on |-> on, atStart |-> [r \in AllCodes |-> {}], times |-> [r \in AllCodes |-> [s \in Sockets |-> 0]]]

InProgress(room) == room.gameStarted /\ ~room.gameEnded

Phase(room) ==
  IF room.gameStarted /\ ~room.gameEnded THEN "InProgress"
  ELSE IF room.gameEnded THEN "Ended" ELSE "Lobby"

PhaseOf(r) == IF r \in DOMAIN rooms THEN Phase(rooms[r]) ELSE "None"

\* history: the event handled by the last step and the phase it found the room in
Step(op, s, r) == [op |-> op, sock |-> s, room |-> r, before |-> PhaseOf(r)]

\* the value of the currentSession signal and of the stored item when there is none
NoSession == [sessionId |-> "null", expiresAt |-> 0]

\* the state of the service: its signals, the stored item, the requests in
\* flight and the number of pending refresh timers
Client ==
  [currentSession |-> currentSession, isAuthenticated |-> isAuthenticated,
   isLoading |-> isLoading, storedSession |-> storedSession, http |-> http,
   refreshTimers |-> refreshTimers]

\* a service that found no session in the URL and none in localStorage
IdleClient ==
  [currentSession |-> NoSession, isAuthenticated |-> FALSE, isLoading |-> FALSE,
   storedSession |-> NoSession, http |-> <<>>, refreshTimers |-> 0]

\* the service starts in state c
StartClient(c) ==
  /\ currentSession = c.currentSession
  /\ isAuthenticated = c.isAuthenticated
  /\ isLoading = c.isLoading
  /\ storedSession = c.storedSession
  /\ http = c.http
  /\ refreshTimers = c.refreshTimers

InitServer ==
  /\ rooms = NoRooms
  /\ roomKeys = <<>>
  /\ members = [r \in AllCodes |-> {}]
  /\ timers = {}
  /\ lookups = {}
  /\ requests = {}
  /\ closed = {}
  /\ out = <<>>
  /\ ack = NoAck
  /\ credited = [r \in AllCodes |-> [s \in Sockets |-> NoCredit]]
  /\ last = [op |-> "none", sock |-> "none", room |-> "none", before |-> "None"]
  /\ announced = NotAnnounced(FALSE)

\* the server after start-up, beside a client that found no session
Init == InitServer /\ StartClient(IdleClient)

\* the same start, with the turn announcements of every game recorded
InitAnnounced ==
  /\ rooms = NoRooms
  /\ roomKeys = <<>>
  /\ members = [r \in AllCodes |-> {}]
  /\ timers = {}
  /\ lookups = {}
  /\ requests = {}
  /\ closed = {}
  /\ out = <<>>
  /\ ack = NoAck
  /\ credited = [r \in AllCodes |-> [s \in Sockets |-> NoCredit]]
  /\ last = [op |-> "none", sock |-> "none", room |-> "none", before |-> "None"]
  /\ announced = NotAnnounced(TRUE)
  /\ StartClient(IdleClient)

\* history: the players a room had when its game started, and how many
\* turn-changed broadcasts have named each player since (lines 237 and 686)
Announce(w) ==
  IF ~announced.on THEN announced
  ELSE
    LET started(r) == \E i \in 1..Len(w.out) : w.out[i].type = "game-started" /\ w.out[i].room = r
        named(r, s) == Cardinality({i \in 1..Len(w.out) :
                          /\ w.out[i].type = "turn-changed"
                          /\ w.out[i].room = r
                          /\ w.out[i].data.currentPlayerId = s})
    IN  [announced EXCEPT
           !.atStart = [r \in AllCodes |->
                          IF started(r) THEN {w.rooms[r].players[i].id : i \in 1..Len(w.rooms[r].players)}
                          ELSE @[r]],
           !.times = [r \in AllCodes |-> [s \in Sockets |->
                          (IF started(r) THEN 0 ELSE @[r][s]) + named(r, s)]]]

Commit(w) ==
  /\ announced' = Announce(w)
  /\ rooms' = w.rooms
  /\ roomKeys' = w.roomKeys
  /\ members' = w.members
  /\ timers' = w.timers
  /\ out' = w.out

Reject(s, msg) ==
  /\ ack' = Fail(s, msg)
  /\ out' = <<>>
  /\ UNCHANGED <<rooms, roomKeys, members, timers, lookups, requests, closed, credited, announced>>

\* every requester taken for the host
NotHostNever(room, s) == FALSE

\* socket.id !== roomObj.hostId
NotHost(room, s) == s # room.hostId

(* ------------------------------ join-room ------------------------------ *)

\* nicknames compared as written
nicknameExistsExact(room, nickname) ==
  \E i \in 1..Len(room.players) : room.players[i].nickname = nickname

nicknameExists(room, nickname) ==
  \E i \in 1..Len(room.players) :
    toLowerCase(room.players[i].nickname) = toLowerCase(nickname)

JoinRoom(s, r, nickname) ==
  /\ s \notin closed
  /\ last' = Step("join-room", s, r)
  /\ UNCHANGED client
  /\ IF Len(nickname) = 0
     THEN Reject(s, "Room and nickname are required")
     ELSE IF Len(nickname) > 20
     THEN Reject(s, "Nickname too long (max 20 chars)")
     ELSE
       LET w0 == [World EXCEPT !.members[r] = @ \cup {s}]
           w1 == IF r \in DOMAIN w0.rooms THEN w0
                 ELSE [w0 EXCEPT !.rooms = (r :> NewRoom(s)) @@ @, !.roomKeys = Append(@, r)]
       IN  IF nicknameExists(w1.rooms[r], nickname)
           THEN /\ Commit(w1)
                /\ ack' = Fail(s, "Nickname already taken in this room")
                /\ UNCHANGED <<lookups, requests, closed, credited>>
           ELSE LET w2 == [w1 EXCEPT !.rooms[r] = SetPlayer(@, s, NewPlayer(s, nickname))]
                    w3 == EmitRoomUpdate(w2, r)
                IN  /\ Commit(w3)
                    /\ ack' = [to |-> s, success |-> TRUE, message |-> "joined",
                               isHost |-> (s = w3.rooms[r].hostId)]
                    /\ UNCHANGED <<lookups, requests, closed, credited>>

(* --------------------------- turn advance ------------------------------ *)

\* broadcast the final scores and leave the game (lines 615-630, 642-656, 361-376)
EndGame(w, r) ==
  LET w1 == Emit(w, r, "game-ended", [scores |-> Scores(w.rooms[r])])
      w2 == [w1 EXCEPT !.rooms[r].gameEnded = TRUE, !.rooms[r].gameStarted = FALSE]
      w3 == ClearTurnTimer(w2, r)
  IN  EmitRoomUpdate(w3, r)

\* turnQueue[currentTurnIndex]; "undefined" when the index is out of range
QueueAt(room) ==
  IF room.currentTurnIndex + 1 \in 1..Len(room.turnQueue)
  THEN room.turnQueue[room.currentTurnIndex + 1]
  ELSE "undefined"

\* a % n of JavaScript numbers, NaN when n is 0 or a is NaN
Mod(a, n) == IF n = 0 \/ a = NaN THEN NaN ELSE a % n

NextIndex(room) ==
  IF room.currentTurnIndex = NaN THEN NaN
  ELSE Mod(room.currentTurnIndex + 1, Len(room.turnQueue))

\* the end-of-game test taken one turn too late
MaxTurnsReachedLate(room) == room.totalTurnsPlayed > room.maxTurns + 1

\* if (roomObj.totalTurnsPlayed > roomObj.maxTurns)
MaxTurnsReached(room) == room.totalTurnsPlayed > room.maxTurns

UsedTimerIds(w) == {t.id : t \in w.timers} \cup {w.rooms[k].turnTimeoutId : k \in DOMAIN w.rooms}

\* setTimeout returns a handle distinct from every handle still referenced
FreshTimerId(w) == CHOOSE i \in TimerIds : i \notin UsedTimerIds(w) /\ \A j \in TimerIds : j < i => j \in UsedTimerIds(w)

TurnChangedData(p) ==
  [currentPlayerId |-> p.id, currentPlayerNickname |-> p.nickname, currentMusicUrl |-> p.musicUrl,
   currentMusicStartTime |-> p.musicStartTime, songTitle |-> p.songTitle, songArtist |-> p.songArtist]

\* every player taken to have a track
HasTrackAlways(p) == TRUE

\* roomObj.players[currentPlayerId].musicUrl is set
HasTrack(p) == p.musicUrl # NullUrl

RECURSIVE startNextTurn(_, _)
startNextTurn(w, r) ==
  LET roomObj == w.rooms[r]
  IN  IF roomObj.gameEnded \/ ~roomObj.gameStarted \/ Len(roomObj.turnQueue) = 0
      THEN w
      ELSE
        LET w1 == ClearTurnTimer(w, r)
            w2 == [w1 EXCEPT !.rooms[r].totalTurnsPlayed = @ + 1]
            room2 == w2.rooms[r]
            currentPlayerId == QueueAt(room2)
        IN  IF MaxTurnsReached(room2)
            THEN EndGame(w2, r)
            ELSE IF ~HasPlayer(room2, currentPlayerId)
            THEN LET w3 == [w2 EXCEPT !.rooms[r].turnQueue = Filter(@, currentPlayerId)]
                 IN  IF Len(w3.rooms[r].turnQueue) = 0
                     THEN EndGame(w3, r)
                     ELSE startNextTurn(
                            [w3 EXCEPT !.rooms[r].currentTurnIndex = Mod(@, Len(w3.rooms[r].turnQueue))], r)
            ELSE IF ~HasTrack(PlayerOf(room2, currentPlayerId))
            THEN startNextTurn([w2 EXCEPT !.rooms[r].currentTurnIndex = NextIndex(room2)], r)
            ELSE LET id == FreshTimerId(w2)
                     w3 == [w2 EXCEPT !.timers = @ \cup {[room |-> r, id |-> id]},
                                      !.rooms[r].turnTimeoutId = id]
                 IN  Emit(w3, r, "turn-changed", TurnChangedData(PlayerOf(room2, currentPlayerId)))

\* the per-turn credit record restarts with every turn advance, reset and room deletion
CreditedAfter(newRooms, base) ==
  [r \in AllCodes |->
     IF r \notin DOMAIN newRooms \/ r \notin DOMAIN rooms
     THEN [s \in Sockets |-> NoCredit]
     ELSE IF newRooms[r].totalTurnsPlayed # rooms[r].totalTurnsPlayed
     THEN [s \in Sockets |-> NoCredit]
     ELSE [s \in Sockets |-> IF HasPlayer(newRooms[r], s) THEN base[r][s] ELSE NoCredit]]

\* the callback of the turn timer (lines 673-681); the world it leaves is
\* bound as a value, once, before it is committed
TimerFire(t) ==
  /\ t \in timers
  /\ last' = Step("timer", "none", t.room)
  /\ UNCHANGED client
  /\ t.room \in DOMAIN rooms
  /\ LET r == t.room
         w0 == [World EXCEPT !.timers = @ \ {t}]
         w1 == [w0 EXCEPT !.rooms[r] = ClearGuesses(@)]
         w2 == [w1 EXCEPT !.rooms[r].currentTurnIndex = NextIndex(w1.rooms[r])]
     IN  \E v \in {w2} : \E w3 \in {startNextTurn(v, r)} :
         /\ Commit(w3)
         /\ ack' = NoAck
         /\ credited' = CreditedAfter(w3.rooms, credited)
         /\ requests' = {[q EXCEPT !.overtaken = @ \/ (q.room = r /\ q.turn = rooms[r].totalTurnsPlayed /\ q.turn > 0)] : q \in requests}
         /\ UNCHANGED <<lookups, closed>>

(* ------------------------------ start-game ----------------------------- *)

\* a shuffle that may repeat and drop ids
PermsWithRepeats(S) == [1..Cardinality(S) -> S]

\* Object.keys(roomObj.players).sort(() => Math.random() - 0.5): any order of the ids
Perms(S) == {q \in [1..Cardinality(S) -> S] : \A i, j \in 1..Cardinality(S) : q[i] = q[j] => i = j}

\* the upload check always passing
AllUploadedAlways(room) == TRUE

\* Object.values(roomObj.players).every(p => p.hasUploaded)
AllUploaded(room) == \A i \in 1..Len(room.players) : room.players[i].hasUploaded

StartGame(s, r, turnDuration) ==
  /\ s \notin closed
  /\ last' = Step("start-game", s, r)
  /\ UNCHANGED client
  /\ IF r \notin DOMAIN rooms THEN Reject(s, "Room not found")
     ELSE IF NotHost(rooms[r], s) THEN Reject(s, "Only the host can start the game.")
     ELSE IF ~AllUploaded(rooms[r]) THEN Reject(s, "Not all players have uploaded songs yet.")
     ELSE IF rooms[r].gameStarted THEN Reject(s, "Game is already in progress.")
     ELSE IF rooms[r].gameEnded THEN Reject(s, "Game has ended. Please reset to start a new game.")
     ELSE LET parsedTurnDuration == parseInt(turnDuration)
          IN  IF parsedTurnDuration = NaN \/ parsedTurnDuration < 10 \/ parsedTurnDuration > 120
              THEN Reject(s, "Invalid turn duration. Must be a number between 10 and 120 seconds.")
              ELSE \E q \in Perms(Range(Ids(rooms[r]))) :
                LET w1 == [World EXCEPT !.rooms[r] =
                             ClearGuesses([@ EXCEPT !.gameStarted = TRUE, !.gameEnded = FALSE,
                                                    !.turnQueue = q, !.currentTurnIndex = 0,
                                                    !.totalTurnsPlayed = 0, !.maxTurns = Len(q),
                                                    !.turnDuration = parsedTurnDuration,
                                                    !.turnTimeoutId = NoTimer])]
                    w2 == Emit(w1, r, "game-started",
                               [turnQueue |-> [i \in 1..Len(q) |-> PlayerOf(w1.rooms[r], q[i]).nickname],
                                turnDuration |-> parsedTurnDuration])
                    w3 == startNextTurn(w2, r)
                IN  /\ Commit(w3)
                    /\ ack' = Ok(s, "started")
                    /\ credited' = CreditedAfter(w3.rooms, credited)
                    /\ UNCHANGED <<lookups, requests, closed>>

(* ------------------------------ next-turn ------------------------------ *)

\* the next-turn handler, run for a request of socket s; rest is what stays in flight
NextTurnHandler(s, r, rest) ==
  /\ s \notin closed
  /\ last' = Step("next-turn", s, r)
  /\ UNCHANGED client
  /\ requests' = rest
  /\ UNCHANGED <<lookups, closed>>
  /\ IF r \notin DOMAIN rooms \/ NotHost(rooms[r], s) \/ ~rooms[r].gameStarted \/ rooms[r].gameEnded
     THEN /\ ack' = Fail(s, IF r \notin DOMAIN rooms THEN "Room not found"
                            ELSE IF NotHost(rooms[r], s) THEN "Only the host can skip turns."
                            ELSE IF ~rooms[r].gameStarted THEN "Game not started yet."
                            ELSE "Game has already ended. Cannot skip turns.")
          /\ out' = <<>>
          /\ UNCHANGED <<rooms, roomKeys, members, timers, credited, announced>>
     ELSE LET w1 == ClearTurnTimer(World, r)
              w2 == [w1 EXCEPT !.rooms[r] = ClearGuesses(@)]
              w3 == [w2 EXCEPT !.rooms[r].currentTurnIndex = NextIndex(w2.rooms[r])]
              w4 == startNextTurn(w3, r)
          IN  /\ Commit(w4)
              /\ ack' = Ok(s, "skipped")
              /\ credited' = CreditedAfter(w4.rooms, credited)

\* a next-turn request sent and handled with nothing in between
NextTurn(s, r) == NextTurnHandler(s, r, requests)

\* the client emits next-turn (skip button, or its own countdown reaching 0);
\* the request is in flight until the server's handler runs
SendNextTurn(s, r) ==
  /\ s \notin closed
  /\ Cardinality(requests) < MaxRequests
  /\ requests' = requests \cup
       {[sock |-> s, room |-> r, overtaken |-> FALSE,
         turn |-> IF r \in DOMAIN rooms /\ rooms[r].gameStarted /\ ~rooms[r].gameEnded
                  THEN rooms[r].totalTurnsPlayed ELSE 0]}
  /\ out' = <<>>
  /\ ack' = NoAck
  /\ last' = Step("send-next-turn", s, r)
  /\ UNCHANGED client
  /\ UNCHANGED <<rooms, roomKeys, members, timers, lookups, closed, credited, announced>>

DeliverNextTurn(q) ==
  /\ q \in requests
  /\ NextTurnHandler(q.sock, q.room, requests \ {q})

(* ------------------------------ reset-game ----------------------------- *)

\* a reset that forgets the scores
ResetPlayerKeepScore(p) ==
  [p EXCEPT !.hasUploaded = FALSE, !.musicUrl = NullUrl, !.musicStartTime = 0,
            !.songTitle = NullStr, !.songArtist = NullStr,
            !.lastGuessTime = 0, !.hasGuessedCorrectlyThisTurn = NoGuess]

ResetPlayer(p) ==
  [p EXCEPT !.hasUploaded = FALSE, !.musicUrl = NullUrl, !.musicStartTime = 0,
            !.songTitle = NullStr, !.songArtist = NullStr, !.score = 0,
            !.lastGuessTime = 0, !.hasGuessedCorrectlyThisTurn = NoGuess]

ResetGame(s, r) ==
  /\ s \notin closed
  /\ last' = Step("reset-game", s, r)
  /\ UNCHANGED client
  /\ IF r \notin DOMAIN rooms THEN Reject(s, "Room not found")
     ELSE IF NotHost(rooms[r], s) THEN Reject(s, "Only the host can reset the game.")
     ELSE LET w1 == ClearTurnTimer(World, r)
              w2 == [w1 EXCEPT !.rooms[r] =
                       [@ EXCEPT !.gameStarted = FALSE, !.gameEnded = FALSE, !.turnQueue = <<>>,
                                 !.currentTurnIndex = 0, !.totalTurnsPlayed = 0, !.maxTurns = 0,
                                 !.turnDuration = 30, !.turnTimeoutId = NoTimer,
                                 !.players = [i \in 1..Len(@) |-> ResetPlayer(@[i])]]]
              w3 == EmitRoomUpdate(w2, r)
          IN  /\ Commit(w3)
              /\ ack' = Ok(s, "Game reset successfully. Players can now upload new songs.")
              /\ credited' = [credited EXCEPT ![r] = [x \in Sockets |-> NoCredit]]
              /\ requests' = {IF q.room = r THEN [q EXCEPT !.turn = 0, !.overtaken = FALSE] ELSE q : q \in requests}
              /\ UNCHANGED <<lookups, closed>>

(* ------------------------------ disconnect ----------------------------- *)

\* the index left where it was after the queue shrank
WrapIndexNever(room) == room

\* if (currentTurnIndex >= turnQueue.length) currentTurnIndex = 0
WrapIndex(room) ==
  IF room.currentTurnIndex >= Len(room.turnQueue) THEN [room EXCEPT !.currentTurnIndex = 0] ELSE room

\* the disconnecting player never recognised as the turn-holder
WasCurrentTurnPlayerNever(room, s) == FALSE

\* turnQueue[currentTurnIndex] === socket.id
WasCurrentTurnPlayer(room, s) == QueueAt(room) = s

\* the disconnected player left in the queue
RemoveFromQueueNot(q, s) == q

\* turnQueue.filter(id => id !== socket.id)
RemoveFromQueue(q, s) == Filter(q, s)

HasId(w, s, k) == HasPlayer(w.rooms[k], s)

\* one 'disconnect' listener: the first room (in key order) that has the player
onDisconnect(w, s) ==
  LET found == SelectSeq(w.roomKeys, LAMBDA k : HasId(w, s, k))
  IN  IF found = <<>> THEN w
      ELSE
        LET r == Head(found)
            w1 == [w EXCEPT !.rooms[r] = DeletePlayer(@, s)]
        IN  IF Len(w1.rooms[r].players) = 0
            THEN LET w2 == ClearTurnTimer(w1, r)
                 IN  [w2 EXCEPT !.rooms = [k \in (DOMAIN w2.rooms) \ {r} |-> w2.rooms[k]],
                                !.roomKeys = Filter(@, r)]
            ELSE
              LET w2 == IF w1.rooms[r].hostId = s
                        THEN [w1 EXCEPT !.rooms[r].hostId = w1.rooms[r].players[1].id]
                        ELSE w1
                  room2 == w2.rooms[r]
              IN  IF room2.gameStarted /\ ~room2.gameEnded /\ s \in Range(room2.turnQueue)
                  THEN
                    LET wasCurrentTurnPlayer == WasCurrentTurnPlayer(room2, s)
                        w3 == [w2 EXCEPT !.rooms[r].turnQueue = RemoveFromQueue(@, s)]
                    IN  IF Len(w3.rooms[r].turnQueue) = 0
                        THEN EndGame(w3, r)
                        ELSE
                          LET w4 == [w3 EXCEPT !.rooms[r] = WrapIndex(@)]
                              w5 == IF wasCurrentTurnPlayer /\ ~w4.rooms[r].gameEnded
                                    THEN startNextTurn(w4, r)
                                    ELSE w4
                          IN  EmitRoomUpdate(w5, r)
                  ELSE EmitRoomUpdate(w2, r)

\* the first room, in key order, whose players include s
RoomOf(s) ==
  LET found == SelectSeq(roomKeys, LAMBDA k : HasPlayer(rooms[k], s))
  IN  IF found = <<>> THEN "none" ELSE Head(found)

\* the connection closes: it has left its socket.io rooms, then both registered
\* 'disconnect' listeners (lines 322 and 501) run in turn
Disconnect(s) ==
  /\ s \notin closed
  /\ last' = Step("disconnect", s, RoomOf(s))
  /\ UNCHANGED client
  /\ LET w0 == [World EXCEPT !.members = [k \in AllCodes |-> @[k] \ {s}]]
         w1 == onDisconnect(w0, s)
         w2 == onDisconnect(w1, s)
     IN  /\ Commit(w2)
         /\ credited' = CreditedAfter(w2.rooms, credited)
  /\ closed' = closed \cup {s}
  /\ requests' = {q \in requests : q.sock # s}
  /\ ack' = NoAck
  /\ UNCHANGED lookups

(* ----------------------------- chat-message ---------------------------- *)

Bump(n) == IF n < MaxCredit THEN n + 1 ELSE n

\* only a guess result broadcast
BroadcastChatIfGuess(w, r, chatMessage) ==
  IF chatMessage.isGuessResult THEN Emit(w, r, "chat-message", chatMessage) ELSE w

\* io.to(room).emit('chat-message', chatMessage)
BroadcastChat(w, r, chatMessage) == Emit(w, r, "chat-message", chatMessage)

\* one point for a message that guesses anything
PointsOnce(titleGuessed, artistGuessed) == IF titleGuessed \/ artistGuessed THEN 1 ELSE 0

\* guesserPlayer.score += 1, for the title and for the artist
Points(titleGuessed, artistGuessed) ==
  (IF titleGuessed THEN 1 ELSE 0) + (IF artistGuessed THEN 1 ELSE 0)

ChatMessage(s, r, message) ==
  /\ s \notin closed
  /\ last' = Step("chat-message", s, r)
  /\ UNCHANGED client
  /\ IF r \notin DOMAIN rooms THEN Reject(s, "Room not found")
     ELSE IF ~HasPlayer(rooms[r], s) THEN Reject(s, "Player not found.")
     ELSE
       LET roomObj == rooms[r]
           sender == PlayerOf(roomObj, s)
           musicOwnerId == QueueAt(roomObj)
           guessing == /\ roomObj.gameStarted /\ ~roomObj.gameEnded /\ Len(roomObj.turnQueue) > 0
                       /\ s # musicOwnerId
                       /\ HasPlayer(roomObj, musicOwnerId)
                       /\ PlayerOf(roomObj, musicOwnerId).songTitle # NullStr
                       /\ PlayerOf(roomObj, musicOwnerId).songArtist # NullStr
           musicOwner == PlayerOf(roomObj, musicOwnerId)
           normalizedMessage == trim(toLowerCase(message))
           correctTitle == trim(toLowerCase(musicOwner.songTitle))
           correctArtist == trim(toLowerCase(musicOwner.songArtist))
           titleGuessed == /\ guessing
                           /\ ~sender.hasGuessedCorrectlyThisTurn.title
                           /\ Len(correctTitle) > 0
                           /\ includes(normalizedMessage, correctTitle)
           artistGuessed == /\ guessing
                            /\ ~sender.hasGuessedCorrectlyThisTurn.artist
                            /\ Len(correctArtist) > 0
                            /\ includes(normalizedMessage, correctArtist)
           guesser == [sender EXCEPT
                         !.score = @ + Points(titleGuessed, artistGuessed),
                         !.hasGuessedCorrectlyThisTurn =
                            [title |-> @.title \/ titleGuessed, artist |-> @.artist \/ artistGuessed]]
           w1 == [World EXCEPT !.rooms[r] = SetPlayer(@, s, guesser)]
           w2 == IF titleGuessed \/ artistGuessed THEN EmitRoomUpdate(w1, r) ELSE w1
           chatMessage ==
             IF titleGuessed \/ artistGuessed
             THEN [nickname |-> sender.nickname, message |-> message, isGuessResult |-> TRUE,
                   titleCorrect |-> titleGuessed, artistCorrect |-> artistGuessed,
                   correctTitle |-> musicOwner.songTitle, correctArtist |-> musicOwner.songArtist,
                   guesserNickname |-> sender.nickname]
             ELSE [nickname |-> sender.nickname, message |-> message, isGuessResult |-> FALSE]
           w3 == BroadcastChat(w2, r, chatMessage)
       IN  /\ Commit(w3)
           /\ ack' = Ok(s, "sent")
           /\ credited' = [credited EXCEPT
                             ![r][s].title = IF titleGuessed THEN Bump(@) ELSE @,
                             ![r][s].artist = IF artistGuessed THEN Bump(@) ELSE @]
           /\ UNCHANGED <<lookups, requests, closed>>

(* ------------------------------ submit-song ---------------------------- *)

\* the synchronous part of the handler, up to the first await (lines 104-121)
SubmitSong(s, r, youtubeUrl) ==
  /\ s \notin closed
  /\ last' = Step("submit-song", s, r)
  /\ UNCHANGED client
  /\ IF r \notin DOMAIN rooms THEN Reject(s, "Room not found")
     ELSE IF rooms[r].gameStarted THEN Reject(s, "Game already started. Cannot upload songs.")
     ELSE IF rooms[r].gameEnded THEN Reject(s, "Game has ended. Please reset to upload new songs.")
     ELSE IF ~HasPlayer(rooms[r], s) THEN Reject(s, "Player not found in room.")
     ELSE IF VideoIdOf(youtubeUrl) = NullUrl
     THEN Reject(s, "Invalid YouTube URL. Please provide a valid YouTube video link.")
     ELSE /\ Cardinality(lookups) < MaxLookups
          /\ lookups' = lookups \cup {[sock |-> s, room |-> r, url |-> youtubeUrl]}
          /\ out' = <<>>
          /\ ack' = NoAck
          /\ UNCHANGED <<rooms, roomKeys, members, timers, requests, closed, credited, announced>>

\* an empty answer taken for a video
NoItemsNever(result) == FALSE

\* if (!response.data.items?.length)
NoItems(result) == result = "empty"

\* the handler resumes when the metadata lookups answer (lines 123-199);
\* result is what the video lookup gave: "ok", "empty" (no items) or "error" (it threw)
LookupDone(l, result) ==
  /\ l \in lookups
  /\ last' = Step("lookup-done", l.sock, l.room)
  /\ UNCHANGED client
  /\ lookups' = lookups \ {l}
  /\ UNCHANGED <<requests, closed, credited>>
  /\ IF NoItems(result)
     THEN /\ ack' = Fail(l.sock, "YouTube video not found or unavailable.")
          /\ out' = <<>>
          /\ UNCHANGED <<rooms, roomKeys, members, timers, announced>>
     ELSE IF result = "error" \/ l.room \notin DOMAIN rooms \/ ~HasPlayer(rooms[l.room], l.sock)
     THEN /\ ack' = Fail(l.sock, "Failed to verify YouTube video or process song. Please try again or check the URL.")
          /\ out' = <<>>
          /\ UNCHANGED <<rooms, roomKeys, members, timers, announced>>
     ELSE LET r == l.room
              p == [PlayerOf(rooms[r], l.sock) EXCEPT
                      !.musicUrl = l.url, !.musicStartTime = StartTimeOf(l.url),
                      !.songTitle = TitleOf(l.url), !.songArtist = ArtistOf(l.url),
                      !.hasUploaded = TRUE]
              w1 == [World EXCEPT !.rooms[r] = SetPlayer(@, l.sock, p)]
              w2 == EmitRoomUpdate(w1, r)
          IN  /\ Commit(w2)
              /\ ack' = [to |-> l.sock, success |-> TRUE, message |-> "uploaded",
                         allUploaded |-> AllUploaded(w2.rooms[r])]

(* ------------------- client: SpotifyAuthService ------------------------ *)

\* the expiry times a response of the backend may carry
ExpiryTimes == {1, 2}

\* the session id found in the page URL ("none" when absent)
UrlSessions == {"none", "a"}

\* the 'spotify_session' item found in localStorage when the page loads
StoredSessions == {NoSession} \cup {[sessionId |-> "b", expiresAt |-> e] : e \in ExpiryTimes}

\* what the backend answers to a request: success with an expiry time,
\* success: false, or an HTTP error
Responses ==
  {[kind |-> "success", expiresAt |-> e] : e \in ExpiryTimes}
    \cup {[kind |-> "failure", expiresAt |-> 0], [kind |-> "error", expiresAt |-> 0]}

\* verifySession(sessionId): isLoading is set and the GET is sent (lines 219-221)
verifySession(c, sessionId) ==
  [c EXCEPT !.isLoading = TRUE,
            !.http = Append(@, [kind |-> "verify", session |-> [sessionId |-> sessionId, expiresAt |-> 0]])]

\* checkExistingSession (lines 44-67)
checkExistingSession(c, urlSession) ==
  IF urlSession # "none" THEN verifySession(c, urlSession)
  ELSE IF c.storedSession # NoSession THEN verifySession(c, c.storedSession.sessionId)
  ELSE c

\* setupTokenRefresh (lines 195-216); positive says whether refreshTime > 0
setupTokenRefresh(c, positive) ==
  IF c.currentSession = NoSession THEN c
  ELSE IF positive THEN [c EXCEPT !.refreshTimers = @ + 1]
  ELSE c

\* setupSessionPersistence (lines 171-192); fresh says whether expiresAt > Date.now()
setupSessionPersistence(c, fresh, positive) ==
  LET c1 == IF c.storedSession = NoSession THEN c
            ELSE IF fresh THEN verifySession(c, c.storedSession.sessionId)
            ELSE [c EXCEPT !.storedSession = NoSession]
  IN  setupTokenRefresh(c1, positive)

\* the local part of logout (lines 91-94)
logout(c) ==
  [c EXCEPT !.currentSession = NoSession, !.isAuthenticated = FALSE, !.storedSession = NoSession]

SetClient(c) ==
  /\ currentSession' = c.currentSession
  /\ isAuthenticated' = c.isAuthenticated
  /\ isLoading' = c.isLoading
  /\ storedSession' = c.storedSession
  /\ http' = c.http
  /\ refreshTimers' = c.refreshTimers

\* the state the constructor leaves (lines 38-41)
ConstructedClient ==
  \E urlSession \in UrlSessions, stored \in StoredSessions, fresh \in BOOLEAN, positive \in BOOLEAN :
    LET c0 == [IdleClient EXCEPT !.storedSession = stored]
        c1 == checkExistingSession(c0, urlSession)
        c2 == setupSessionPersistence(c1, fresh, positive)
    IN  StartClient(c2)

WithoutRequest(q, i) == [j \in 1..(Len(q) - 1) |-> IF j < i THEN q[j] ELSE q[j + 1]]

\* logout() called by the application (lines 78-95); the answer to its POST is ignored
Logout ==
  /\ SetClient(logout(Client))
  /\ UNCHANGED server

\* the answer to the GET of verifySession arrives (lines 222-251)
VerifyResponse(i, response, positive) ==
  /\ i \in 1..Len(http) /\ http[i].kind = "verify"
  /\ LET c0 == [Client EXCEPT !.http = WithoutRequest(@, i)]
         session == [sessionId |-> http[i].session.sessionId, expiresAt |-> response.expiresAt]
         c1 == IF response.kind = "success"
               THEN setupTokenRefresh([c0 EXCEPT !.currentSession = session,
                                                 !.isAuthenticated = TRUE,
                                                 !.storedSession = session], positive)
               ELSE logout(c0)
     IN  SetClient([c1 EXCEPT !.isLoading = FALSE])
  /\ UNCHANGED server

\* next: of refreshToken, with the session captured when the POST was sent (lines 107-117)
refreshApplied(c, session, response) ==
  [c EXCEPT !.currentSession = [session EXCEPT !.expiresAt = response.expiresAt],
            !.storedSession = [session EXCEPT !.expiresAt = response.expiresAt]]

\* a refresh timer expires and calls refreshToken (lines 204-213, 98-106)
RefreshTimerFire ==
  /\ refreshTimers > 0
  /\ LET c0 == [Client EXCEPT !.refreshTimers = @ - 1]
     IN  SetClient(IF c0.currentSession = NoSession THEN c0
                   ELSE [c0 EXCEPT !.http = Append(@, [kind |-> "refresh", session |-> c0.currentSession])])
  /\ UNCHANGED server

\* the answer to the POST of refreshToken arrives, then the timer's
\* continuation runs (lines 107-130, 205-212)
RefreshResponse(i, response, positive) ==
  /\ i \in 1..Len(http) /\ http[i].kind = "refresh"
  /\ LET c0 == [Client EXCEPT !.http = WithoutRequest(@, i)]
     IN  SetClient(IF response.kind = "success"
                   THEN setupTokenRefresh(refreshApplied(c0, http[i].session, response), positive)
                   ELSE logout(c0))
  /\ UNCHANGED server

\* the service alone, constructed with any URL and any stored session
InitAuth == InitServer /\ ConstructedClient

NextAuth ==
  \/ Logout
  \/ \E i \in 1..Len(http), response \in Responses, positive \in BOOLEAN : VerifyResponse(i, response, positive)
  \/ RefreshTimerFire
  \/ \E i \in 1..Len(http), response \in Responses, positive \in BOOLEAN : RefreshResponse(i, response, positive)

SpecAuth == InitAuth /\ [][NextAuth]_vars

(* --------------------------- specifications ---------------------------- *)

\* two connections, every request handled as it is sent
Next ==
  \E s \in Pair, r \in RoomCodes :
    \/ \E n \in NickChoices(s) : JoinRoom(s, r, n)
    \/ \E u \in Urls : SubmitSong(s, r, u)
    \/ \E l \in lookups, res \in LookupResults : LookupDone(l, res)
    \/ \E d \in DurationInputs : StartGame(s, r, d)
    \/ \E t \in timers : TimerFire(t)
    \/ NextTurn(s, r)
    \/ ResetGame(s, r)
    \/ \E m \in Messages : ChatMessage(s, r, m)
    \/ Disconnect(s)

Spec == Init /\ [][Next]_vars

\* three connections, one nickname each, no chat
Next3 ==
  \E s \in Sockets, r \in RoomCodes :
    \/ JoinRoom(s, r, OwnNick(s))
    \/ \E u \in Urls : SubmitSong(s, r, u)
    \/ \E l \in lookups, res \in LookupResults : LookupDone(l, res)
    \/ \E d \in DurationInputs : StartGame(s, r, d)
    \/ \E t \in timers : TimerFire(t)
    \/ NextTurn(s, r)
    \/ ResetGame(s, r)
    \/ Disconnect(s)

Spec3 == Init /\ [][Next3]_vars

\* two connections, next-turn requests in flight between client and server
NextRace ==
  \E s \in Pair, r \in RoomCodes :
    \/ JoinRoom(s, r, OwnNick(s))
    \/ \E u \in Urls : SubmitSong(s, r, u)
    \/ \E l \in lookups, res \in LookupResults : LookupDone(l, res)
    \/ \E d \in RaceDurations : StartGame(s, r, d)
    \/ \E t \in timers : TimerFire(t)
    \/ SendNextTurn(s, r)
    \/ \E q \in requests : DeliverNextTurn(q)
    \/ ResetGame(s, r)
    \/ Disconnect(s)

SpecRace == Init /\ [][NextRace]_vars

\* two connections, two different tracks to upload, no chat
NextUpload ==
  \E s \in Pair, r \in RoomCodes :
    \/ JoinRoom(s, r, OwnNick(s))
    \/ \E u \in UploadUrls : SubmitSong(s, r, u)
    \/ \E l \in lookups, res \in LookupResults : LookupDone(l, res)
    \/ \E d \in DurationInputs : StartGame(s, r, d)
    \/ \E t \in timers : TimerFire(t)
    \/ NextTurn(s, r)
    \/ ResetGame(s, r)
    \/ Disconnect(s)

SpecUpload == Init /\ [][NextUpload]_vars

\* the chat messages of the chat specification: one with the title and the
\* artist of "u1", one with the title only, one with neither
ChatMessages == {<<" ", "J", " ", "H", "I">>, <<"h", "i", "!">>, <<"n", "o">>}

\* two connections, one nickname and one track each, three chat messages
NextChat ==
  \E s \in Pair, r \in RoomCodes :
    \/ JoinRoom(s, r, OwnNick(s))
    \/ SubmitSong(s, r, "u1")
    \/ \E l \in lookups : LookupDone(l, "ok")
    \/ \E d \in DurationInputs : StartGame(s, r, d)
    \/ \E t \in timers : TimerFire(t)
    \/ NextTurn(s, r)
    \/ ResetGame(s, r)
    \/ \E m \in ChatMessages : ChatMessage(s, r, m)
    \/ Disconnect(s)

SpecChat == Init /\ [][NextChat]_vars

\* the room codes of the specification of several rooms: the first connection
\* joins all three and plays in "R", the second joins and plays in "Q" only
JoinCodes(s) == IF s = "s1" THEN AllCodes ELSE {"Q"}
PlayCodes(s) == IF s = "s1" THEN {"R"} ELSE {"Q"}
ChatCodes(s) == IF s = "s1" THEN {"R", "Q"} ELSE {"Q"}

\* two connections and three room codes
NextRooms ==
  \E s \in Pair :
    \/ \E r \in JoinCodes(s) : JoinRoom(s, r, OwnNick(s))
    \/ \E r \in PlayCodes(s) :
         \/ SubmitSong(s, r, "u1")
         \/ StartGame(s, r, <<"1", "0">>)
         \/ NextTurn(s, r)
         \/ ResetGame(s, r)
    \/ \E l \in lookups : LookupDone(l, "ok")
    \/ \E t \in timers : TimerFire(t)
    \/ \E r \in ChatCodes(s), m \in Messages : ChatMessage(s, r, m)
    \/ Disconnect(s)

SpecRooms == Init /\ [][NextRooms]_vars

\* two connections, no next-turn request, the turn announcements recorded
NextNoSkip ==
  \E s \in Pair, r \in RoomCodes :
    \/ JoinRoom(s, r, OwnNick(s))
    \/ SubmitSong(s, r, "u1")
    \/ \E l \in lookups : LookupDone(l, "ok")
    \/ StartGame(s, r, <<"1", "0">>)
    \/ \E t \in timers : TimerFire(t)
    \/ ResetGame(s, r)
    \/ Disconnect(s)

SpecNoSkip == InitAnnounced /\ [][NextNoSkip]_vars

\* the upload specification with the runtime firing every pending timer in the end
SpecLive == Init /\ [][NextUpload]_vars /\ WF_vars(\E t \in timers : TimerFire(t))

\* the turn durations offered to start-game in the duration specification:
\* 10, 9, 121, a text without digits, 10 followed by a letter, and 120.5
DurationTexts ==
  {<<"1", "0">>, <<"9">>, <<"1", "2", "1">>, <<"x">>, <<"1", "0", "x">>, <<"1", "2", "0", ".", "5">>}

\* two connections, one nickname and one track each, six turn durations
NextDurations ==
  \E s \in Pair, r \in RoomCodes :
    \/ JoinRoom(s, r, OwnNick(s))
    \/ SubmitSong(s, r, "u1")
    \/ \E l \in lookups : LookupDone(l, "ok")
    \/ \E d \in DurationTexts : StartGame(s, r, d)
    \/ \E t \in timers : TimerFire(t)
    \/ NextTurn(s, r)
    \/ ResetGame(s, r)
    \/ Disconnect(s)

SpecDurations == Init /\ [][NextDurations]_vars

(* ------------------------------- claims -------------------------------- *)

HasEvent(o, type, r) == \E i \in 1..Len(o) : o[i].type = type /\ o[i].room = r

IdSet(room) == Range(Ids(room))

\* the step just taken asked for a turn advance in room r: the turn timer
\* expired, the host's next-turn was accepted, or the turn-holder disconnected
AdvanceTriggered(r) ==
  /\ last'.room = r
  /\ \/ last'.op = "timer"
     \/ last'.op = "next-turn" /\ ack'.success
     \/ last'.op = "disconnect" /\ last'.sock = QueueAt(rooms[r])

\* C1: while a room is in progress its turn queue is non-empty and
\* currentTurnIndex is an index of the queue (0 <= index < length).
TurnIndexInRange ==
  \A r \in DOMAIN rooms :
    InProgress(rooms[r]) =>
      /\ Len(rooms[r].turnQueue) > 0
      /\ rooms[r].currentTurnIndex \in 0..(Len(rooms[r].turnQueue) - 1)

\* C1 witness: a game still in progress after a queued player disconnected in its second turn
TurnIndexAfterDisconnect ==
  \E r \in DOMAIN rooms :
    /\ InProgress(rooms[r])
    /\ last.op = "disconnect" /\ last.room = r /\ last.before = "InProgress"
    /\ rooms[r].totalTurnsPlayed = 2
    /\ Len(rooms[r].turnQueue) = 1

\* C2 as stated: totalTurnsPlayed never exceeds maxTurns, in any phase.
TurnsNeverExceedMax ==
  \A r \in DOMAIN rooms : rooms[r].totalTurnsPlayed <= rooms[r].maxTurns

\* C2 amended: totalTurnsPlayed never exceeds maxTurns while the room is in
\* Lobby or in progress; the advance that ends the game leaves it at
\* maxTurns + 1, which it never exceeds.
TurnsWithinMax ==
  \A r \in DOMAIN rooms :
    /\ rooms[r].totalTurnsPlayed <= rooms[r].maxTurns + 1
    /\ Phase(rooms[r]) # "Ended" => rooms[r].totalTurnsPlayed <= rooms[r].maxTurns

\* C2 witness: a game ended by the advance past the last turn
EndedPastMax ==
  \E r \in DOMAIN rooms :
    /\ Phase(rooms[r]) = "Ended"
    /\ rooms[r].totalTurnsPlayed = rooms[r].maxTurns + 1
    /\ HasEvent(out, "game-ended", r)

\* once a game has ended no turn-changed is broadcast for it
NoTurnAfterEnd ==
  \A r \in DOMAIN rooms : rooms[r].gameEnded => ~HasEvent(out', "turn-changed", r)

\* C3 as stated: from a room in progress with totalTurnsPlayed = maxTurns the
\* next turn advance (timer, host next-turn, turn-holder disconnect) leaves the
\* room in Ended with a game-ended broadcast and no turn-changed, and no
\* turn-changed follows in that game.
AdvanceAtMaxEndsGame ==
  [][/\ NoTurnAfterEnd
     /\ \A r \in DOMAIN rooms :
          (InProgress(rooms[r]) /\ rooms[r].totalTurnsPlayed = rooms[r].maxTurns /\ AdvanceTriggered(r))
          => /\ r \in DOMAIN rooms'
             /\ Phase(rooms'[r]) = "Ended"
             /\ HasEvent(out', "game-ended", r)
             /\ ~HasEvent(out', "turn-changed", r)]_vars

\* C3 amended: the same, except that when the advance is the disconnect of the
\* room's last player the room is destroyed and nothing is broadcast.
AdvanceAtMaxEndsOrDestroys ==
  [][/\ NoTurnAfterEnd
     /\ \A r \in DOMAIN rooms :
          (InProgress(rooms[r]) /\ rooms[r].totalTurnsPlayed = rooms[r].maxTurns /\ AdvanceTriggered(r))
          => \/ /\ r \in DOMAIN rooms'
                /\ Phase(rooms'[r]) = "Ended"
                /\ HasEvent(out', "game-ended", r)
                /\ ~HasEvent(out', "turn-changed", r)
             \/ /\ last'.op = "disconnect"
                /\ Len(rooms[r].players) = 1
                /\ r \notin DOMAIN rooms'
                /\ out' = <<>>]_vars

\* C3 witness: the timer expired in the last turn and the game ended
TimerEndedLastTurn ==
  \E r \in DOMAIN rooms :
    /\ last.op = "timer" /\ last.room = r /\ last.before = "InProgress"
    /\ Phase(rooms[r]) = "Ended"
    /\ rooms[r].maxTurns = 2
    /\ HasEvent(out, "game-ended", r)

\* C4: within one turn a player is credited at most once for the title and
\* at most once for the artist, however many matching messages it sends.
CreditedOncePerTurn ==
  \A r \in RoomCodes, s \in Sockets :
    credited[r][s].title <= 1 /\ credited[r][s].artist <= 1

\* C5: a next-turn request whose turn the timer has already advanced does not
\* advance the turn again when the server handles it.
NoDoubleAdvance ==
  [][\A q \in requests :
       (q.overtaken /\ q \notin requests' /\ last'.op = "next-turn" /\ q.room \in DOMAIN rooms)
       => /\ q.room \in DOMAIN rooms'
          /\ rooms'[q.room].currentTurnIndex = rooms[q.room].currentTurnIndex
          /\ rooms'[q.room].totalTurnsPlayed = rooms[q.room].totalTurnsPlayed]_vars

\* the turn-holder of a three-player game in progress disconnects from room r
HolderOfThreeLeaves(r) ==
  /\ InProgress(rooms[r])
  /\ Len(rooms[r].players) = 3
  /\ Len(rooms[r].turnQueue) = 3
  /\ last'.op = "disconnect" /\ last'.room = r
  /\ last'.sock = QueueAt(rooms[r])

\* a turn-changed of the step names a player still in room r, who now holds the turn
TurnGivenToRemaining(r) ==
  /\ InProgress(rooms'[r])
  /\ \E i \in 1..Len(out') :
       /\ out'[i].type = "turn-changed" /\ out'[i].room = r
       /\ out'[i].data.currentPlayerId \in IdSet(rooms'[r])
       /\ out'[i].data.currentPlayerId = QueueAt(rooms'[r])

\* C6 as stated: in a three-player game in progress the disconnect of the
\* turn-holder always gives the turn to one of the two remaining players and
\* leaves maxTurns unchanged.
HolderDisconnectPassesTurn ==
  [][\A r \in DOMAIN rooms :
       HolderOfThreeLeaves(r)
       => /\ r \in DOMAIN rooms'
          /\ rooms'[r].maxTurns = rooms[r].maxTurns
          /\ TurnGivenToRemaining(r)]_vars

\* C6 amended: maxTurns is unchanged; a remaining player gets the turn when
\* totalTurnsPlayed was below maxTurns and the remaining queued players have a
\* track; when totalTurnsPlayed had reached maxTurns the game ends instead;
\* in every case one of the two happens.
HolderDisconnectPassesOrEnds ==
  [][\A r \in DOMAIN rooms :
       HolderOfThreeLeaves(r)
       => /\ r \in DOMAIN rooms'
          /\ rooms'[r].maxTurns = rooms[r].maxTurns
          /\ \/ TurnGivenToRemaining(r)
             \/ /\ Phase(rooms'[r]) = "Ended"
                /\ HasEvent(out', "game-ended", r)
                /\ ~HasEvent(out', "turn-changed", r)
          /\ (/\ rooms[r].totalTurnsPlayed < rooms[r].maxTurns
              /\ \A i \in 1..Len(rooms'[r].turnQueue) :
                   PlayerOf(rooms'[r], rooms'[r].turnQueue[i]).musicUrl # NullUrl)
             => TurnGivenToRemaining(r)
          /\ rooms[r].totalTurnsPlayed = rooms[r].maxTurns => Phase(rooms'[r]) = "Ended"]_vars

\* C6 witness: two of three players left in progress, the turn just passed on by a disconnect
TurnPassedAfterHolderLeft ==
  \E r \in DOMAIN rooms :
    /\ last.op = "disconnect" /\ last.room = r /\ last.before = "InProgress"
    /\ InProgress(rooms[r])
    /\ rooms[r].maxTurns = 3
    /\ Len(rooms[r].players) = 2 /\ Len(rooms[r].turnQueue) = 2
    /\ HasEvent(out, "turn-changed", r)

\* the room its current players would have after joining it one by one
RECURSIVE JoinedBy(_, _)
JoinedBy(ps, room) ==
  IF ps = <<>> THEN room
  ELSE JoinedBy(Tail(ps), SetPlayer(room, Head(ps).id, NewPlayer(Head(ps).id, Head(ps).nickname)))

FreshRoom(room) == JoinedBy(room.players, NewRoom(room.players[1].id))

\* C7: after the host's reset-game in the Ended phase the room equals the room
\* its current players would have just joined: Lobby, empty queue, zero
\* counters, no timer, every player without track, upload, score and guess flags.
ResetRestoresFreshRoom ==
  \A r \in DOMAIN rooms :
    (last.op = "reset-game" /\ last.room = r /\ last.before = "Ended" /\ ack.success)
    => /\ rooms[r] = FreshRoom(rooms[r])
       /\ Phase(rooms[r]) = "Lobby"
       /\ \A t \in timers : t.room # r

\* C7 witness: a room of two players just reset from Ended
ResetFromEnded ==
  \E r \in DOMAIN rooms :
    /\ last.op = "reset-game" /\ last.room = r /\ last.before = "Ended" /\ ack.success
    /\ Len(rooms[r].players) = 2

\* C8: the host's reset-game outside the Ended phase is refused and changes nothing.
ResetOutsideEndedRejected ==
  [][\A r \in DOMAIN rooms :
       (/\ last'.op = "reset-game" /\ last'.room = r
        /\ last'.sock = rooms[r].hostId
        /\ Phase(rooms[r]) # "Ended")
       => /\ ~ack'.success
          /\ rooms' = rooms
          /\ timers' = timers]_vars

\* C9: the phase of a room changes only Lobby -> InProgress (start-game),
\* InProgress -> Ended (turn advance or emptied queue) and Ended -> Lobby (reset-game).
PhaseFollowsCycle ==
  [][\A r \in (DOMAIN rooms) \cap (DOMAIN rooms') :
       Phase(rooms[r]) # Phase(rooms'[r])
       => \/ /\ Phase(rooms[r]) = "Lobby" /\ Phase(rooms'[r]) = "InProgress"
             /\ last'.op = "start-game" /\ ack'.success
          \/ /\ Phase(rooms[r]) = "InProgress" /\ Phase(rooms'[r]) = "Ended"
             /\ last'.op \in {"timer", "next-turn", "disconnect"}
          \/ /\ Phase(rooms[r]) = "Ended" /\ Phase(rooms'[r]) = "Lobby"
             /\ last'.op = "reset-game" /\ ack'.success]_vars

\* C10 as stated: in every phase every id in turnQueue is a key of players.
QueueWithinPlayers ==
  \A r \in DOMAIN rooms : Range(rooms[r].turnQueue) \subseteq IdSet(rooms[r])

\* C10 amended: in Lobby and InProgress every id in turnQueue is a key of
\* players (in Ended the queue keeps the ids of players who left afterwards).
QueueWithinPlayersUntilEnd ==
  \A r \in DOMAIN rooms :
    Phase(rooms[r]) # "Ended" => Range(rooms[r].turnQueue) \subseteq IdSet(rooms[r])

\* C10 witness: a game in progress from whose queue a disconnected player was removed
QueuedPlayerLeftInProgress ==
  \E r \in DOMAIN rooms :
    /\ last.op = "disconnect" /\ last.room = r /\ last.before = "InProgress"
    /\ InProgress(rooms[r])
    /\ Len(rooms[r].turnQueue) < rooms[r].maxTurns

\* C11: a start-game, next-turn or reset-game request of a connection that is
\* not the room's host is refused with a failure acknowledgement to that
\* connection, broadcasts nothing and leaves the room, its timer and its
\* membership as they were.
NonHostRejected ==
  [][\A r \in DOMAIN rooms :
       (/\ last'.op \in {"start-game", "next-turn", "reset-game"}
        /\ last'.room = r
        /\ last'.sock # rooms[r].hostId)
       => /\ ~ack'.success
          /\ ack'.to = last'.sock
          /\ out' = <<>>
          /\ rooms' = rooms
          /\ timers' = timers
          /\ members' = members]_vars

\* C11 witness: a player who is not the host was refused a reset during a game
NonHostResetRefused ==
  \E r \in DOMAIN rooms :
    /\ last.op = "reset-game" /\ last.room = r /\ last.before = "InProgress"
    /\ HasPlayer(rooms[r], last.sock)
    /\ last.sock # rooms[r].hostId
    /\ ~ack.success /\ ack.to = last.sock
    /\ InProgress(rooms[r])
    /\ out = <<>>

\* nickname n collides, ignoring case, with a nickname of a player of the room
Collides(room, n) ==
  \E i \in 1..Len(room.players) : toLowerCase(room.players[i].nickname) = toLowerCase(n)

\* C12: the nicknames of the players of a room are pairwise distinct when
\* compared without regard to case and none is longer than 20 characters; a
\* join whose nickname collides with that of a player of the room is refused
\* (the nickname of an accepted join collided with none in the room).
NicknamesDistinct ==
  /\ [](\A r \in DOMAIN rooms :
         \A i, j \in 1..Len(rooms[r].players) :
           /\ Len(rooms[r].players[i].nickname) <= 20
           /\ i # j => toLowerCase(rooms[r].players[i].nickname) # toLowerCase(rooms[r].players[j].nickname))
  /\ [][\A r \in DOMAIN rooms :
          (last'.op = "join-room" /\ last'.room = r /\ ack'.success)
          => /\ HasPlayer(rooms'[r], last'.sock)
             /\ ~Collides(rooms[r], PlayerOf(rooms'[r], last'.sock).nickname)]_vars

\* C12 witness: a join asking for "X" was refused in a room that has a player "x",
\* next to a player whose nickname has 20 characters
CollidingJoinRefused ==
  \E r \in DOMAIN rooms :
    /\ last.op = "join-room" /\ last.room = r
    /\ ack.message = "Nickname already taken in this room"
    /\ \E i, j \in 1..Len(rooms[r].players) :
         /\ rooms[r].players[i].nickname = <<"x">>
         /\ Len(rooms[r].players[j].nickname) = 20

\* the turn durations start-game accepts among those offered: 10 and 120
ValidDurations == {<<"1", "0">>, <<"1", "2", "0">>}

\* start-game of connection s with duration d meets every requirement
MayStart(s, r, d) ==
  /\ r \in DOMAIN rooms
  /\ s = rooms[r].hostId
  /\ \A i \in 1..Len(rooms[r].players) : rooms[r].players[i].hasUploaded
  /\ Phase(rooms[r]) = "Lobby"
  /\ d \in ValidDurations

StartedBeforeTurn(o, r) ==
  \E i \in 1..Len(o) :
    /\ o[i].type = "game-started" /\ o[i].room = r
    /\ \E j \in 1..Len(o) : j > i /\ o[j].type = "turn-changed" /\ o[j].room = r
    /\ \A k \in 1..Len(o) : (o[k].type = "turn-changed" /\ o[k].room = r) => k > i

\* C14: after a successful start-game the turn queue holds the id of every
\* player of the room exactly once, currentTurnIndex is 0, maxTurns is the
\* number of players, every guess flag is cleared, the room is in progress
\* and game-started was broadcast before the first turn-changed.
StartGameSetsQueue ==
  [][\A r \in DOMAIN rooms :
       (last'.op = "start-game" /\ last'.room = r /\ ack'.success)
       => /\ r \in DOMAIN rooms'
          /\ IdSet(rooms'[r]) = IdSet(rooms[r])
          /\ Len(rooms'[r].turnQueue) = Len(rooms[r].players)
          /\ Range(rooms'[r].turnQueue) = IdSet(rooms[r])
          /\ rooms'[r].currentTurnIndex = 0
          /\ rooms'[r].maxTurns = Len(rooms[r].players)
          /\ \A i \in 1..Len(rooms'[r].players) :
               rooms'[r].players[i].hasGuessedCorrectlyThisTurn = [title |-> FALSE, artist |-> FALSE]
          /\ Phase(rooms'[r]) = "InProgress"
          /\ StartedBeforeTurn(out', r)]_vars

\* C14 witness: a game of three players just started, the host not first in the queue
ThreeShuffled ==
  \E r \in DOMAIN rooms :
    /\ last.op = "start-game" /\ last.room = r /\ ack.success
    /\ Len(rooms[r].players) = 3
    /\ rooms[r].turnQueue[1] # rooms[r].hostId
    /\ HasEvent(out, "game-started", r)

\* what submit-song stores for the players of a room
Tracks(room) ==
  [i \in 1..Len(room.players) |->
     [id |-> room.players[i].id, musicUrl |-> room.players[i].musicUrl,
      musicStartTime |-> room.players[i].musicStartTime,
      songTitle |-> room.players[i].songTitle, songArtist |-> room.players[i].songArtist,
      hasUploaded |-> room.players[i].hasUploaded]]

\* C15: submit-song stores a track only while the room is in Lobby: outside
\* Lobby a request is refused, and a lookup that completes outside Lobby
\* leaves every player's track and hasUploaded as they were.
TracksSetInLobbyOnly ==
  [][\A r \in (DOMAIN rooms) \cap (DOMAIN rooms') :
       (/\ last'.op \in {"submit-song", "lookup-done"}
        /\ last'.room = r
        /\ Phase(rooms[r]) # "Lobby")
       => /\ Tracks(rooms'[r]) = Tracks(rooms[r])
          /\ last'.op = "submit-song" => (ack' = Fail(last'.sock, ack'.message) /\ lookups' = lookups)]_vars

\* C16: when the lookup of a submit-song fails, or the submitting player has
\* left the room before it completes, the requester alone gets a failure
\* acknowledgement: nothing is broadcast and no room changes.
LookupFailureIsPrivate ==
  [][\A l \in lookups : \A res \in LookupResults :
       (/\ LookupDone(l, res)
        /\ \/ res # "ok"
           \/ l.room \notin DOMAIN rooms
           \/ ~HasPlayer(rooms[l.room], l.sock))
       => /\ ~ack'.success
          /\ ack'.to = l.sock
          /\ out' = <<>>
          /\ rooms' = rooms]_vars

\* C16 witness: a lookup completed for a player who had left a room that still exists
LookupForLeaverFailed ==
  \E r \in DOMAIN rooms :
    /\ last.op = "lookup-done" /\ last.room = r
    /\ last.sock \in closed
    /\ ~ack.success /\ ack.to = last.sock
    /\ out = <<>>

\* C17: a join-room refused for a duplicate or over-long nickname creates no
\* room, adds and alters no player and broadcasts nothing, and the refused
\* connection receives none of the room's later broadcasts: every broadcast
\* of a room goes to connections that are players of it.
RejectedJoinLeavesNoTrace ==
  /\ [](\A i \in 1..Len(out) :
         out[i].room \in DOMAIN rooms => out[i].to \subseteq IdSet(rooms[out[i].room]))
  /\ [][(/\ last'.op = "join-room"
         /\ ack'.message \in {"Nickname already taken in this room", "Nickname too long (max 20 chars)"})
        => (rooms' = rooms /\ out' = <<>>)]_vars

\* C18: the step that ends a turn by timer expiry or by the host's next-turn
\* broadcasts show-answer with the title and artist of the finished
\* turn-holder and does not yet advance: the index moves and turn-changed or
\* game-ended is emitted only later, after the reveal wait.
AnswerShownBeforeAdvance ==
  [][\A r \in DOMAIN rooms :
       (/\ InProgress(rooms[r])
        /\ last'.room = r
        /\ last'.op = "timer" \/ (last'.op = "next-turn" /\ ack'.success))
       => /\ \E i \in 1..Len(out') :
               /\ out'[i].type = "show-answer" /\ out'[i].room = r
               /\ out'[i].data.songTitle = PlayerOf(rooms[r], QueueAt(rooms[r])).songTitle
               /\ out'[i].data.songArtist = PlayerOf(rooms[r], QueueAt(rooms[r])).songArtist
          /\ ~HasEvent(out', "turn-changed", r)
          /\ ~HasEvent(out', "game-ended", r)
          /\ r \in DOMAIN rooms'
          /\ rooms'[r].currentTurnIndex = rooms[r].currentTurnIndex]_vars

\* C19: a room has at most one pending turn timer, and a pending timer
\* belongs to an existing room that is in progress and holds its handle: no
\* timer is scheduled over an earlier one, and reset, game end and room
\* destruction leave none pending.
OneTimerPerRoom ==
  /\ \A r \in RoomCodes : Cardinality({t \in timers : t.room = r}) <= 1
  /\ \A t \in timers :
       /\ t.room \in DOMAIN rooms
       /\ InProgress(rooms[t.room])
       /\ rooms[t.room].turnTimeoutId = t.id

\* C19 witness: the host skipped a turn and the next turn's timer is the only one pending
TimerRescheduledAfterSkip ==
  \E r \in DOMAIN rooms :
    /\ last.op = "next-turn" /\ last.room = r /\ ack.success
    /\ InProgress(rooms[r])
    /\ rooms[r].totalTurnsPlayed = 2
    /\ Cardinality({t \in timers : t.room = r}) = 1

\* the step just taken ran the turn advance for room r: a successful
\* start-game, or one of the triggers of a room in progress
AdvanceRan(r) ==
  \/ last'.op = "start-game" /\ last'.room = r /\ ack'.success
  \/ InProgress(rooms[r]) /\ AdvanceTriggered(r)

\* C20: every run of the turn advance ends, after at most as many retries as
\* turns remain, in one of two ways: a turn-changed broadcast for a player who
\* is in the room, has a track and now holds the turn, or the game ended;
\* it never runs for a room that is not in progress.
AdvanceEndsInTurnOrEnd ==
  [][\A r \in (DOMAIN rooms) \cap (DOMAIN rooms') :
       AdvanceRan(r)
       => /\ rooms'[r].totalTurnsPlayed <= rooms'[r].maxTurns + 1
          /\ \/ /\ InProgress(rooms'[r])
                /\ ~HasEvent(out', "game-ended", r)
                /\ \E i \in 1..Len(out') :
                     /\ out'[i].type = "turn-changed" /\ out'[i].room = r
                     /\ out'[i].data.currentPlayerId \in IdSet(rooms'[r])
                     /\ out'[i].data.currentPlayerId = QueueAt(rooms'[r])
                     /\ PlayerOf(rooms'[r], QueueAt(rooms'[r])).musicUrl # NullUrl
                     /\ out'[i].data.currentMusicUrl # NullUrl
             \/ /\ Phase(rooms'[r]) = "Ended"
                /\ HasEvent(out', "game-ended", r)
                /\ ~HasEvent(out', "turn-changed", r)]_vars

\* C20 witness: the timer advance of a game in progress ended the game in a
\* room whose queue holds a player without a track
AdvancePastTracklessPlayer ==
  \E r \in DOMAIN rooms :
    /\ last.op = "timer" /\ last.room = r /\ last.before = "InProgress"
    /\ Phase(rooms[r]) = "Ended"
    /\ HasEvent(out, "game-ended", r)
    /\ \E i \in 1..Len(rooms[r].turnQueue) :
         /\ HasPlayer(rooms[r], rooms[r].turnQueue[i])
         /\ PlayerOf(rooms[r], rooms[r].turnQueue[i]).musicUrl = NullUrl

\* C21: every game-ended broadcast lists exactly the players of the room,
\* each with the score it has, in descending order of score, players of equal
\* score in the order in which they joined; the players of a room are kept in
\* join order (a new player goes last, the others keep their places).
FinalScoresOrdered ==
  /\ [](\A i \in 1..Len(out) :
          (out[i].type = "game-ended" /\ out[i].room \in DOMAIN rooms)
          => LET ps == rooms[out[i].room].players
                 sc == out[i].data.scores
             IN  /\ Len(sc) = Len(ps)
                 /\ \E f \in Perms(1..Len(ps)) :
                      /\ \A k \in 1..Len(ps) :
                           sc[k] = [nickname |-> ps[f[k]].nickname, score |-> ps[f[k]].score]
                      /\ \A k, l \in 1..Len(ps) :
                           k < l => \/ ps[f[k]].score > ps[f[l]].score
                                    \/ ps[f[k]].score = ps[f[l]].score /\ f[k] < f[l])
  /\ [][\A r \in (DOMAIN rooms) \cap (DOMAIN rooms') :
          \/ Ids(rooms'[r]) = Ids(rooms[r])
          \/ /\ last'.op = "join-room" /\ ack'.success
             /\ Ids(rooms'[r]) = Append(Ids(rooms[r]), last'.sock)
          \/ /\ last'.op = "disconnect"
             /\ Ids(rooms'[r]) = Filter(Ids(rooms[r]), last'.sock)]_vars

\* C21 witness: a game ended with the player who joined second ahead of the
\* first on a higher score
LaterJoinerRankedFirst ==
  \E i \in 1..Len(out) :
    /\ out[i].type = "game-ended" /\ out[i].room \in DOMAIN rooms
    /\ Len(rooms[out[i].room].players) = 2
    /\ rooms[out[i].room].players[2].score > rooms[out[i].room].players[1].score
    /\ out[i].data.scores[1].nickname = rooms[out[i].room].players[2].nickname

\* the step just taken handled a chat message for room r that changed a score
\* of the room or was broadcast with a guess outcome
ChatScored(r) ==
  /\ last'.op = "chat-message" /\ last'.room = r
  /\ \/ \E s \in IdSet(rooms[r]) \cap IdSet(rooms'[r]) :
          PlayerOf(rooms'[r], s).score # PlayerOf(rooms[r], s).score
     \/ \E i \in 1..Len(out') : out'[i].type = "chat-message" /\ out'[i].data.isGuessResult

\* C22: a chat message changes a score, or carries a guess outcome, only when
\* the room is in progress, the sender is not the turn-holder and the
\* turn-holder is a player with a resolved track (so never in Lobby or Ended
\* and never for the turn-holder's own message); and no step other than
\* reset-game lowers the score of a player of the room.
ChatScoresOnlyGuesses ==
  [][\A r \in (DOMAIN rooms) \cap (DOMAIN rooms') :
       /\ ChatScored(r)
          => /\ InProgress(rooms[r])
             /\ last'.sock # QueueAt(rooms[r])
             /\ HasPlayer(rooms[r], QueueAt(rooms[r]))
             /\ HasTrack(PlayerOf(rooms[r], QueueAt(rooms[r])))
             /\ PlayerOf(rooms[r], QueueAt(rooms[r])).songTitle # NullStr
       /\ last'.op # "reset-game"
          => \A s \in IdSet(rooms[r]) \cap IdSet(rooms'[r]) :
               PlayerOf(rooms'[r], s).score >= PlayerOf(rooms[r], s).score]_vars

\* the number of items (title, artist) credited to player s of room r by the step just taken
NewlyCredited(r, s) ==
  LET before == PlayerOf(rooms[r], s).hasGuessedCorrectlyThisTurn
      after == PlayerOf(rooms'[r], s).hasGuessedCorrectlyThisTurn
  IN  (IF ~before.title /\ after.title THEN 1 ELSE 0) + (IF ~before.artist /\ after.artist THEN 1 ELSE 0)

\* C23: an accepted chat message raises the sender's score by the number of
\* items newly credited by it (0, 1 or 2) and changes no other score; the
\* chat-message broadcast carries a guess outcome, naming the items credited,
\* exactly when that number is not 0, and a room-update showing the new score
\* is then broadcast too.
ChatCreditsNewItems ==
  [][\A r \in (DOMAIN rooms) \cap (DOMAIN rooms') :
       (last'.op = "chat-message" /\ last'.room = r /\ ack'.success)
       => LET s == last'.sock
              n == NewlyCredited(r, s)
          IN  /\ n \in 0..2
              /\ PlayerOf(rooms'[r], s).score = PlayerOf(rooms[r], s).score + n
              /\ \A x \in IdSet(rooms[r]) \ {s} :
                   HasPlayer(rooms'[r], x) /\ PlayerOf(rooms'[r], x).score = PlayerOf(rooms[r], x).score
              /\ \A i \in 1..Len(out') :
                   out'[i].type = "chat-message"
                   => /\ out'[i].data.isGuessResult = (n > 0)
                      /\ n > 0 => /\ out'[i].data.titleCorrect =
                                       (PlayerOf(rooms'[r], s).hasGuessedCorrectlyThisTurn.title
                                        /\ ~PlayerOf(rooms[r], s).hasGuessedCorrectlyThisTurn.title)
                                  /\ out'[i].data.artistCorrect =
                                       (PlayerOf(rooms'[r], s).hasGuessedCorrectlyThisTurn.artist
                                        /\ ~PlayerOf(rooms[r], s).hasGuessedCorrectlyThisTurn.artist)
              /\ HasEvent(out', "chat-message", r)
              /\ n > 0 => \E i \in 1..Len(out') :
                            /\ out'[i].type = "room-update" /\ out'[i].room = r
                            /\ out'[i].data.players[PlayerIdx(rooms'[r], s)].score
                                 = PlayerOf(rooms'[r], s).score
              /\ n = 0 => ~HasEvent(out', "room-update", r)]_vars

\* C23 witness: a message credited for the artist only, sent by a player
\* already credited for the title in this turn, whose score is now 2
ArtistCreditedAfterTitle ==
  \E r \in DOMAIN rooms :
    /\ last.op = "chat-message" /\ last.room = r /\ ack.success
    /\ \E i \in 1..Len(out) :
         /\ out[i].type = "chat-message"
         /\ out[i].data.isGuessResult
         /\ ~out[i].data.titleCorrect /\ out[i].data.artistCorrect
    /\ HasPlayer(rooms[r], last.sock)
    /\ PlayerOf(rooms[r], last.sock).score = 2
    /\ HasEvent(out, "room-update", r)

\* C24: a chat-message request from a player of the room is acknowledged as a
\* success and broadcast to the room exactly once, under the sender's
\* nickname, whatever the phase of the room and whether or not the text is a
\* guess.
PlayerChatBroadcastOnce ==
  [][\A r \in DOMAIN rooms :
       (last'.op = "chat-message" /\ last'.room = r /\ HasPlayer(rooms[r], last'.sock))
       => /\ ack'.success /\ ack'.to = last'.sock
          /\ Cardinality({i \in 1..Len(out') : out'[i].type = "chat-message"}) = 1
          /\ \A i \in 1..Len(out') :
               out'[i].type = "chat-message"
               => /\ out'[i].room = r
                  /\ out'[i].to = members[r]
                  /\ last'.sock \in out'[i].to
                  /\ out'[i].data.nickname = PlayerOf(rooms[r], last'.sock).nickname
                  /\ out'[i].data.message \in ChatMessages]_vars

\* C24 witness: a plain line sent after the game ended was broadcast
ChatAfterGameEnded ==
  \E r \in DOMAIN rooms :
    /\ last.op = "chat-message" /\ last.room = r /\ last.before = "Ended"
    /\ ack.success
    /\ \E i \in 1..Len(out) :
         /\ out[i].type = "chat-message" /\ out[i].room = r
         /\ ~out[i].data.isGuessResult
         /\ out[i].data.message = <<"n", "o">>

\* C25: every room has a host that is one of its players: the connection whose
\* join creates the room is its host, and when the host disconnects while
\* other players remain, a remaining player is the host after that step.
HostIsPlayer ==
  /\ [](\A r \in DOMAIN rooms : HasPlayer(rooms[r], rooms[r].hostId))
  /\ [][\A r \in AllCodes :
          /\ (r \notin DOMAIN rooms /\ r \in DOMAIN rooms')
             => /\ last'.op = "join-room" /\ last'.room = r
                /\ rooms'[r].hostId = last'.sock
                /\ Ids(rooms'[r]) = <<last'.sock>>
          /\ (/\ last'.op = "disconnect"
              /\ r \in DOMAIN rooms
              /\ rooms[r].hostId = last'.sock
              /\ IdSet(rooms[r]) \ {last'.sock} # {})
             => /\ r \in DOMAIN rooms'
                /\ rooms'[r].hostId \in IdSet(rooms[r]) \ {last'.sock}
                /\ HasPlayer(rooms'[r], rooms'[r].hostId)]_vars

\* C26: a room is in the registry exactly while it has players: it comes into
\* being with the first successful join for its code and with that player in
\* it, and it is deleted, with no timer of it left pending, in the very step
\* in which its last player disconnects and in no other step.
RoomExistsWhilePlayers ==
  /\ [](/\ \A r \in DOMAIN rooms : Len(rooms[r].players) > 0
        /\ Range(roomKeys) = DOMAIN rooms)
  /\ [][\A r \in AllCodes :
          /\ (r \notin DOMAIN rooms /\ r \in DOMAIN rooms')
             => last'.op = "join-room" /\ last'.room = r /\ ack'.success
          /\ (last'.op = "join-room" /\ last'.room = r /\ ack'.success)
             => r \in DOMAIN rooms' /\ HasPlayer(rooms'[r], last'.sock)
          /\ (r \in DOMAIN rooms /\ r \notin DOMAIN rooms')
             => last'.op = "disconnect" /\ IdSet(rooms[r]) = {last'.sock}
          /\ (last'.op = "disconnect" /\ r \in DOMAIN rooms /\ IdSet(rooms[r]) = {last'.sock})
             => /\ r \notin DOMAIN rooms'
                /\ \A t \in timers' : t.room # r]_vars

\* room r as the step just taken left it: in the registry or not, its record,
\* its pending timers, and no broadcast sent to it
RoomUntouched(r) ==
  /\ (r \in DOMAIN rooms') = (r \in DOMAIN rooms)
  /\ r \in DOMAIN rooms => rooms'[r] = rooms[r]
  /\ {t \in timers' : t.room = r} = {t \in timers : t.room = r}
  /\ credited'[r] = credited[r]
  /\ \A i \in 1..Len(out') : out'[i].room # r

\* C27: an event handled for one room (join, submit and its completion,
\* start-game, next-turn, timer expiry, chat, reset-game) leaves every other
\* room as it was and broadcasts nothing to it, and a disconnect leaves every
\* room as it was in which the connection was no player.
OtherRoomsUntouched ==
  [][\A r \in AllCodes :
       /\ (last'.op # "disconnect" /\ last'.room # r) => RoomUntouched(r) /\ members'[r] = members[r]
       /\ (last'.op = "disconnect" /\ (r \notin DOMAIN rooms \/ ~HasPlayer(rooms[r], last'.sock)))
          => RoomUntouched(r)]_vars

\* C27 witness: a game was started in one room while a game with a pending
\* timer and a credited guess was in progress in another
StartedBesideRunningGame ==
  \E r, q \in DOMAIN rooms :
    /\ r # q
    /\ last.op = "start-game" /\ last.room = r /\ ack.success
    /\ InProgress(rooms[r])
    /\ InProgress(rooms[q])
    /\ \E t \in timers : t.room = q
    /\ \E i \in 1..Len(rooms[q].players) : rooms[q].players[i].score > 0

\* C28: while a room is in progress the player whose track is scored,
\* turnQueue[currentTurnIndex], is the player named in the latest turn-changed
\* broadcast: a step that broadcasts turn-changed names the new holder, and a
\* step that broadcasts none (a disconnect of another player, a join, a chat
\* message) leaves the holder as it was.
HolderIsAnnounced ==
  [][\A r \in (DOMAIN rooms) \cap (DOMAIN rooms') :
       InProgress(rooms'[r])
       => /\ \A i \in 1..Len(out') :
               (/\ out'[i].type = "turn-changed" /\ out'[i].room = r
                /\ \A j \in (i + 1)..Len(out') : out'[j].type # "turn-changed")
               => out'[i].data.currentPlayerId = QueueAt(rooms'[r])
          /\ (InProgress(rooms[r]) /\ ~HasEvent(out', "turn-changed", r))
             => QueueAt(rooms'[r]) = QueueAt(rooms[r])]_vars

\* C29: when a game ends, every player who was in the room when it started
\* and is still in it has been named by exactly one turn-changed broadcast of
\* that game, whichever other players disconnected meanwhile (no next-turn
\* request is made).
EachStayerAnnouncedOnce ==
  [][\A r \in (DOMAIN rooms) \cap (DOMAIN rooms') :
       (InProgress(rooms[r]) /\ Phase(rooms'[r]) = "Ended" /\ HasEvent(out', "game-ended", r))
       => \A s \in announced'.atStart[r] \cap IdSet(rooms'[r]) :
            announced'.times[r][s] = 1]_vars

\* C30: every started game ends: with pending timers firing in the end and
\* whatever the clients do or leave undone, a room in progress is later in
\* the Ended phase or destroyed.
GameEventuallyEnds ==
  \A r \in RoomCodes : (PhaseOf(r) = "InProgress") ~> (PhaseOf(r) \in {"Ended", "None"})

\* C31: a room of the registry has a pending turn timer exactly when it is in
\* progress, and then exactly one, the one whose handle the room holds; no
\* timer is pending for a room in Lobby or Ended or for a room that was destroyed.
TimerIffInProgress ==
  /\ \A t \in timers : t.room \in DOMAIN rooms /\ InProgress(rooms[t.room])
  /\ \A r \in DOMAIN rooms :
       /\ InProgress(rooms[r]) =>
            /\ Cardinality({t \in timers : t.room = r}) = 1
            /\ \E t \in timers : t.room = r /\ t.id = rooms[r].turnTimeoutId
       /\ ~InProgress(rooms[r]) => {t \in timers : t.room = r} = {}

\* C31 witness: a turn timer expired in a game of two and the room, still in
\* progress, has the next turn's timer pending and no other
TimerPendingAfterExpiry ==
  \E r \in DOMAIN rooms :
    /\ last.op = "timer" /\ last.room = r
    /\ InProgress(rooms[r])
    /\ rooms[r].totalTurnsPlayed = 2
    /\ {t.id : t \in timers} = {rooms[r].turnTimeoutId}

\* C32: whenever a step broadcasts turn-changed in a room, every player of the
\* room has both per-turn guess flags (title, artist) false after the step,
\* whatever caused the turn to change.
FlagsClearAtTurnChange ==
  [][\A r \in DOMAIN rooms' :
       HasEvent(out', "turn-changed", r)
       => \A i \in 1..Len(rooms'[r].players) :
            rooms'[r].players[i].hasGuessedCorrectlyThisTurn = NoGuess]_vars

\* C33: when a disconnect is handled for a room in progress and the leaving
\* player is in the turn queue but does not hold the turn, no turn advance
\* happens: totalTurnsPlayed, maxTurns and the pending timers are unchanged, no
\* turn-changed and no game-ended is broadcast, the room stays in progress, and
\* the player is only removed from players and from turnQueue, every other
\* player record staying as it was and currentTurnIndex staying within the queue.
NonHolderLeavesQuietly ==
  [][\A r \in DOMAIN rooms : \A s \in Sockets :
       (/\ last'.op = "disconnect" /\ last'.sock = s /\ last'.room = r
        /\ InProgress(rooms[r])
        /\ s \in Range(rooms[r].turnQueue)
        /\ QueueAt(rooms[r]) # s)
       => /\ r \in DOMAIN rooms'
          /\ InProgress(rooms'[r])
          /\ rooms'[r].totalTurnsPlayed = rooms[r].totalTurnsPlayed
          /\ rooms'[r].maxTurns = rooms[r].maxTurns
          /\ rooms'[r].turnTimeoutId = rooms[r].turnTimeoutId
          /\ timers' = timers
          /\ ~HasEvent(out', "turn-changed", r)
          /\ ~HasEvent(out', "game-ended", r)
          /\ rooms'[r].players = SelectSeq(rooms[r].players, LAMBDA p : p.id # s)
          /\ rooms'[r].turnQueue = Filter(rooms[r].turnQueue, s)
          /\ rooms'[r].currentTurnIndex \in {rooms[r].currentTurnIndex, 0}
          /\ rooms'[r].currentTurnIndex < Len(rooms'[r].turnQueue)
          /\ rooms'[r].turnDuration = rooms[r].turnDuration]_vars

\* C33 witness: of a game of three in progress, a queued player who does not
\* hold the turn has left; the two others are still queued and the timer of
\* the running turn is still pending
QueuedNonHolderLeft ==
  \E r \in DOMAIN rooms :
    /\ last.op = "disconnect" /\ last.room = r /\ last.before = "InProgress"
    /\ InProgress(rooms[r])
    /\ rooms[r].maxTurns = 3
    /\ rooms[r].totalTurnsPlayed = 1
    /\ Len(rooms[r].turnQueue) = 2
    /\ Len(rooms[r].players) = 2
    /\ out = <<[type |-> "room-update", room |-> r, to |-> members[r], data |-> getRoomUpdate(World, r)]>>

\* C34: when a disconnect handled for a room in progress removes the last
\* entry of the turn queue while other players remain, the room is Ended after
\* the step, game-ended and then room-update were broadcast to it and none of
\* its timers is pending; and no room is ever in progress with an empty queue.
EmptyQueueEndsGame ==
  /\ [](\A r \in DOMAIN rooms : InProgress(rooms[r]) => Len(rooms[r].turnQueue) > 0)
  /\ [][\A r \in DOMAIN rooms : \A s \in Sockets :
          (/\ last'.op = "disconnect" /\ last'.sock = s /\ last'.room = r
           /\ InProgress(rooms[r])
           /\ Range(rooms[r].turnQueue) = {s}
           /\ Len(rooms[r].players) > 1)
          => /\ r \in DOMAIN rooms'
             /\ Phase(rooms'[r]) = "Ended"
             /\ [i \in 1..Len(out') |-> out'[i].type] = <<"game-ended", "room-update">>
             /\ \A i \in 1..Len(out') : out'[i].room = r
             /\ out'[2].data.gameEnded /\ ~out'[2].data.gameStarted
             /\ {t \in timers' : t.room = r} = {}
             /\ rooms'[r].turnTimeoutId = NoTimer
             /\ rooms'[r].turnQueue = <<>>
             /\ rooms'[r].players = SelectSeq(rooms[r].players, LAMBDA p : p.id # s)]_vars

\* C34 witness: the only queued player of a game in progress has left a room
\* where a player who joined after the start remains; the room is Ended
LastQueuedPlayerLeft ==
  \E r \in DOMAIN rooms :
    /\ last.op = "disconnect" /\ last.room = r /\ last.before = "InProgress"
    /\ Phase(rooms[r]) = "Ended"
    /\ rooms[r].turnQueue = <<>>
    /\ Len(rooms[r].players) = 1
    /\ rooms[r].maxTurns = 1
    /\ HasEvent(out, "game-ended", r)

\* C35: a join-room request from a connection that is already a player of the
\* room leaves that player's record as it was: its nickname, score, track and
\* hasUploaded are the same after the request.
RejoinKeepsRecord ==
  [][\A r \in DOMAIN rooms : \A s \in Sockets :
       (last'.op = "join-room" /\ last'.sock = s /\ last'.room = r /\ HasPlayer(rooms[r], s))
       => /\ r \in DOMAIN rooms' /\ HasPlayer(rooms'[r], s)
          /\ PlayerOf(rooms'[r], s).nickname = PlayerOf(rooms[r], s).nickname
          /\ PlayerOf(rooms'[r], s).score = PlayerOf(rooms[r], s).score
          /\ PlayerOf(rooms'[r], s).musicUrl = PlayerOf(rooms[r], s).musicUrl
          /\ PlayerOf(rooms'[r], s).songTitle = PlayerOf(rooms[r], s).songTitle
          /\ PlayerOf(rooms'[r], s).songArtist = PlayerOf(rooms[r], s).songArtist
          /\ PlayerOf(rooms'[r], s).hasUploaded = PlayerOf(rooms[r], s).hasUploaded]_vars

\* C36: a connection that has disconnected is a player of no room of the
\* registry and an entry of no turn queue of a game in progress.
ClosedConnectionInNoRoom ==
  \A s \in closed : \A r \in DOMAIN rooms :
    /\ ~HasPlayer(rooms[r], s)
    /\ InProgress(rooms[r]) => s \notin Range(rooms[r].turnQueue)

\* C37: a join-room accepted for a room that is in progress or ended gives the
\* joiner a player record with score 0, no track and hasUploaded false, keeps
\* every other player's record, and leaves the phase, turnQueue,
\* currentTurnIndex, totalTurnsPlayed, maxTurns, the host, the timer handle and
\* the pending timers as they were.
LateJoinAddsFreshPlayer ==
  [][\A r \in DOMAIN rooms : \A s \in Sockets :
       (/\ last'.op = "join-room" /\ last'.sock = s /\ last'.room = r /\ ack'.success
        /\ Phase(rooms[r]) \in {"InProgress", "Ended"})
       => /\ HasPlayer(rooms'[r], s)
          /\ PlayerOf(rooms'[r], s).score = 0
          /\ PlayerOf(rooms'[r], s).musicUrl = NullUrl
          /\ PlayerOf(rooms'[r], s).songTitle = NullStr
          /\ PlayerOf(rooms'[r], s).songArtist = NullStr
          /\ PlayerOf(rooms'[r], s).hasUploaded = FALSE
          /\ SelectSeq(rooms'[r].players, LAMBDA p : p.id # s)
               = SelectSeq(rooms[r].players, LAMBDA p : p.id # s)
          /\ Phase(rooms'[r]) = Phase(rooms[r])
          /\ rooms'[r].turnQueue = rooms[r].turnQueue
          /\ rooms'[r].currentTurnIndex = rooms[r].currentTurnIndex
          /\ rooms'[r].totalTurnsPlayed = rooms[r].totalTurnsPlayed
          /\ rooms'[r].maxTurns = rooms[r].maxTurns
          /\ rooms'[r].hostId = rooms[r].hostId
          /\ rooms'[r].turnTimeoutId = rooms[r].turnTimeoutId
          /\ timers' = timers]_vars

\* C37 witness: a second player has just joined a one-player game in progress
\* and is not in its turn queue
JoinedGameInProgress ==
  \E r \in DOMAIN rooms :
    /\ last.op = "join-room" /\ last.room = r /\ last.before = "InProgress" /\ ack.success
    /\ InProgress(rooms[r])
    /\ Len(rooms[r].players) = 2
    /\ Len(rooms[r].turnQueue) = 1
    /\ last.sock \notin Range(rooms[r].turnQueue)
    /\ ~PlayerOf(rooms[r], last.sock).hasUploaded
    /\ timers # {}

\* d is the text of a number: digits, with at most one "." between digits
IsNumeric(d) ==
  /\ Len(d) > 0
  /\ \A i \in 1..Len(d) : IsDigit(d[i]) \/ d[i] = "."
  /\ Cardinality({i \in 1..Len(d) : d[i] = "."}) <= 1
  /\ IsDigit(d[1]) /\ IsDigit(d[Len(d)])

\* the number d is the text of lies between 10 and 120 inclusive
NumberInRange(d) ==
  /\ IsNumeric(d)
  /\ parseInt(d) >= 10
  /\ \/ parseInt(d) < 120
     \/ /\ parseInt(d) = 120
        /\ \A i \in 1..Len(d) : IsDigit(d[i]) => (\A j \in 1..(i - 1) : d[j] # ".") \/ d[i] = "0"

\* C38: the turn duration of every room is an integer from 10 to 120, and 30
\* while the room is in Lobby; a start-game whose duration is not a number or
\* is a number outside 10..120 is refused and leaves the registry as it was.
StoredDurationValid ==
  /\ [](\A r \in DOMAIN rooms :
          /\ rooms[r].turnDuration \in 10..120
          /\ Phase(rooms[r]) = "Lobby" => rooms[r].turnDuration = 30)
  /\ [][\A r \in RoomCodes : \A s \in Sockets : \A d \in DurationTexts :
          (StartGame(s, r, d) /\ ~NumberInRange(d))
          => ~ack'.success /\ rooms' = rooms /\ timers' = timers]_vars

\* C39: in every state of the client's SpotifyAuthService, whatever the order
\* of logout and of the answers to the session verifications and token
\* refreshes in flight, isAuthenticated is true exactly when currentSession
\* is not null.
AuthenticatedIffSession ==
  isAuthenticated <=> currentSession # NoSession
====
